---- MODULE Spec2Model ----
(***************************************************************************)
(* google_voice_importer: the batching writer (src/src/cypher_writer.rs)   *)
(* and the structured-markup parser parse_file (src/src/main.rs).          *)
(*                                                                         *)
(* Spec      : the ingestion pipeline - a producer feeding neo4j_writer    *)
(*             over a bounded channel, the writer's receive loop and the   *)
(*             two bulk operations of send_batch_to_neo4j.                 *)
(* FairSpec  : Spec with the writer task scheduled fairly.                  *)
(* ParseSpec : parse_file on one document, block by block.                 *)
(* LineSpec  : the line-oriented parser on one transcript, line by line.   *)
(***************************************************************************)
EXTENDS Integers, Sequences, FiniteSets, TLC

\* ---------------------------------------------------------------- bounds
MaxThreads == 5      \* longest stream the producer sends
MaxBatchSize == 3    \* largest THREAD_BATCH_SIZE tried
QueueCap == 2        \* capacity of the bounded channel
MaxBlocks == 3       \* most message blocks in one document
MaxLines == 4        \* most lines in one transcript

VARIABLES
  \* pipeline
  THREAD_BATCH_SIZE, \* the configured batch size B >= 1
  produced,          \* Threads the producer has put on the queue, in order
  queue,             \* the channel's buffer
  closed,            \* the producer has dropped its Sender
  rx_open,           \* the writer still owns the Receiver
  wpc,               \* the writer's position
  final,             \* the flush in progress is the one after the loop
  batch,             \* neo4j_writer's `batch`
  total_threads,     \* neo4j_writer's `total_threads`
  ops,               \* the store operations issued so far, with outcome
  result,            \* what neo4j_writer returned
  participant_nodes, \* the store's (:Participant) nodes, in creation order
  message_nodes,     \* the store's (:Message) nodes with their two links
  \* parser
  document,          \* the message blocks of the document
  ppc,               \* parse_file's position
  idx,               \* the block the current pass is at
  participants_set,  \* the HashSet of the first pass
  me_participant,    \* Option<Participant>: {} or {p}
  participants,      \* the Vec collected from the HashSet
  messages,          \* the Messages built by the second pass
  thread,            \* Option<Thread>: what parse_file returned, {} or {t}
  \* line-oriented parser
  lines,             \* the transcript, each line as its delimiter-separated fields
  lpc,               \* the parser's position
  lidx,              \* the line it is at
  current,           \* the message in progress: {} or {m}
  out,               \* the messages emitted so far
  labels             \* the thread's label set

store_vars == <<participant_nodes, message_nodes>>
pipe_vars == <<THREAD_BATCH_SIZE, produced, queue, closed, rx_open, wpc,
               final, batch, total_threads, ops, result, store_vars>>
parse_vars == <<document, ppc, idx, participants_set, me_participant,
                participants, messages, thread>>
line_vars == <<lines, lpc, lidx, current, out, labels>>
vars == <<pipe_vars, parse_vars, line_vars>>

\* ------------------------------------------------------------- utilities
Range(s) == {s[i] : i \in DOMAIN s}

RECURSIVE Concat(_)
Concat(ss) == IF ss = <<>> THEN <<>> ELSE Head(ss) \o Concat(Tail(ss))

IsPrefix(s, t) == Len(s) <= Len(t) /\ SubSeq(t, 1, Len(s)) = s

SelectOps(o) == SelectSeq(ops, LAMBDA r : r.op = o)

\* ====================================================== ingestion pipeline

\* Mutation: the threshold test is off by one ( > for >= ).
BatchFull_OffByOne(b) == Len(b) > THREAD_BATCH_SIZE

\* cypher_writer.rs:28   batch.len() >= THREAD_BATCH_SIZE
BatchFull(b) == Len(b) >= THREAD_BATCH_SIZE

\* Mutation: a remainder of a single thread is not flushed.
BatchNonEmpty_MoreThanOne(b) == Len(b) > 1

\* cypher_writer.rs:37   !batch.is_empty()
BatchNonEmpty(b) == b # <<>>

\* main.rs:26-48   the Threads the producer can send: a two-party thread
\* with a block named Me, and an inbound-only thread whose self participant
\* was synthesized (and so is in no participant list).
TwoPartyThread ==
  LET me == [name |-> "Me", phone |-> "+1"]
      bob == [name |-> "Bob", phone |-> "+2"]
  IN [participants |-> <<me, bob>>,
      messages |-> <<[from |-> bob, to |-> <<me>>,
                      timestamp |-> 1609506000, content |-> "hi"],
                     [from |-> me, to |-> <<bob>>,
                      timestamp |-> 0, content |-> ""]>>]

InboundOnlyThread ==
  LET bob == [name |-> "", phone |-> "+2"]
      me == [name |-> "Me", phone |-> "Unknown"]
  IN [participants |-> <<bob>>,
      messages |-> <<[from |-> bob, to |-> <<me>>,
                      timestamp |-> 1609506000, content |-> "yo"]>>]

\* A group thread: a message of self goes to every other participant.
GroupThread ==
  LET me == [name |-> "Me", phone |-> "+1"]
      bob == [name |-> "Bob", phone |-> "+2"]
      al == [name |-> "Al", phone |-> "+3"]
  IN [participants |-> <<me, bob, al>>,
      messages |-> <<[from |-> me, to |-> <<bob, al>>,
                      timestamp |-> 1609506000, content |-> "all"]>>]

\* A thread whose only sender is self: its message has no recipient.
SelfOnlyThread ==
  LET me == [name |-> "Me", phone |-> "+1"]
  IN [participants |-> <<me>>,
      messages |-> <<[from |-> me, to |-> <<>>,
                      timestamp |-> 0, content |-> "note"]>>]

ThreadValues ==
  {TwoPartyThread, InboundOnlyThread, GroupThread, SelfOnlyThread}

\* A Thread on its way through the pipeline: its value, and the position at
\* which the producer sent it (two Threads of equal value stay two Threads).
SentThread(n, v) ==
  [id |-> n, participants |-> v.participants, messages |-> v.messages]

Ids(s) == [k \in 1..Len(s) |-> s[k].id]

\* cypher_writer.rs:105   DateTime<Utc>::to_rfc3339()
to_rfc3339(ts) ==
  CASE ts = 0 -> "1970-01-01T00:00:00+00:00"
    [] ts = 1609506000 -> "2021-01-01T13:00:00+00:00"

\* cypher_writer.rs:78-83   the map built for one participant
participant_map(p) == [phone |-> p.phone, name |-> p.name]

\* cypher_writer.rs:92-107   the map built for one message
message_map(m) ==
  [from_phone |-> m.from.phone,
   to_phones |-> [k \in 1..Len(m.to) |-> m.to[k].phone],
   content |-> m.content,
   timestamp |-> to_rfc3339(m.timestamp)]

\* Mutation: the payload walks the batch back to front.
participant_to_params_Reversed(b) ==
  Concat([k \in 1..Len(b) |->
            [j \in 1..Len(b[Len(b) + 1 - k].participants) |->
               participant_map(b[Len(b) + 1 - k].participants[j])]])

\* cypher_writer.rs:75-86   for thread in batch, for p in thread.participants
participant_to_params(b) ==
  Concat([k \in 1..Len(b) |->
            [j \in 1..Len(b[k].participants) |->
               participant_map(b[k].participants[j])]])

\* cypher_writer.rs:88-111   for thread in batch, for m in thread.messages
message_to_params(b) ==
  Concat([k \in 1..Len(b) |->
            [j \in 1..Len(b[k].messages) |-> message_map(b[k].messages[j])]])

HasPhone(nodes, phone) == \E k \in DOMAIN nodes : nodes[k].phone = phone

\* cypher_writer.rs:52-53   MERGE (p:Participant {phone}) SET p.name, for one
\* row: every node with that phone gets the name; if there is none, one is
\* created.
merge_participant(nodes, row) ==
  IF HasPhone(nodes, row.phone)
    THEN [k \in 1..Len(nodes) |->
            IF nodes[k].phone = row.phone
              THEN [nodes[k] EXCEPT !.name = row.name]
              ELSE nodes[k]]
    ELSE Append(nodes, [phone |-> row.phone, name |-> row.name])

\* cypher_writer.rs:51-53   UNWIND $participants: the rows one after another
\* (the singleton set binds the node list after the first row once)
RECURSIVE run_participant_query(_, _)
run_participant_query(nodes, rows) ==
  IF rows = <<>> THEN nodes
  ELSE CHOOSE r \in {run_participant_query(n, Tail(rows)) :
                       n \in {merge_participant(nodes, Head(rows))}} : TRUE

\* cypher_writer.rs:61-67 for one message: MATCH from, UNWIND to_phones,
\* MATCH to, then the three CREATEs once per row that is left - one
\* (:Message) node with one SENT and one TO link per matched pair.
message_rows(nodes, msg) ==
  LET froms == SelectSeq(nodes, LAMBDA n : n.phone = msg.from_phone)
      tos == Concat([k \in 1..Len(msg.to_phones) |->
                       SelectSeq(nodes,
                                 LAMBDA n : n.phone = msg.to_phones[k])])
  IN Concat([f \in 1..Len(froms) |->
               [t \in 1..Len(tos) |->
                  [content |-> msg.content, timestamp |-> msg.timestamp,
                   from |-> froms[f].phone, to |-> tos[t].phone]]])

\* cypher_writer.rs:60-67   UNWIND $messages: the nodes the query creates,
\* message by message
run_message_query(nodes, msgs) ==
  [k \in 1..Len(msgs) |-> message_rows(nodes, msgs[k])]

\* One store operation as the store saw it: which of the two, the batch it
\* was built from, its parameter list, its outcome, when it was issued, and
\* the (:Message) nodes it created for each message of its parameter list.
OpRecord(o, payload, ok, created) ==
  [op |-> o, batch |-> Ids(batch), payload |-> payload, ok |-> ok,
   final |-> final, seen |-> total_threads,
   drained |-> (closed /\ queue = <<>>), created |-> created]

PipeInit ==
  /\ THREAD_BATCH_SIZE \in 1..MaxBatchSize
  /\ produced = <<>>
  /\ queue = <<>>
  /\ closed = FALSE
  /\ rx_open = TRUE
  /\ wpc = "connect"
  /\ final = FALSE
  /\ batch = <<>>
  /\ total_threads = 0
  /\ ops = <<>>
  /\ result = "none"
  /\ participant_nodes = <<>>
  /\ message_nodes = <<>>

\* The producer: sends the next Thread while the queue has room.
ProducerSend ==
  /\ ~closed
  /\ rx_open
  /\ Len(produced) < MaxThreads
  /\ Len(queue) < QueueCap
  /\ \E v \in ThreadValues :
       LET t == SentThread(Len(produced) + 1, v) IN
         /\ produced' = Append(produced, t)
         /\ queue' = Append(queue, t)
  /\ UNCHANGED <<THREAD_BATCH_SIZE, closed, rx_open, wpc, final, batch,
                 total_threads, ops, result>>
  /\ UNCHANGED store_vars

\* The producer closes the stream.
ProducerClose ==
  /\ ~closed
  /\ closed' = TRUE
  /\ UNCHANGED <<THREAD_BATCH_SIZE, produced, queue, rx_open, wpc, final,
                 batch, total_threads, ops, result>>
  /\ UNCHANGED store_vars

\* cypher_writer.rs:17-21   Graph::new(..).await.context(..)?
Connect ==
  /\ wpc = "connect"
  /\ wpc' = "recv"
  /\ UNCHANGED <<THREAD_BATCH_SIZE, produced, queue, closed, rx_open, final,
                 batch, total_threads, ops, result>>
  /\ UNCHANGED store_vars

ConnectFail ==
  /\ wpc = "connect"
  /\ wpc' = "failed"
  /\ result' = "err"
  /\ rx_open' = FALSE
  /\ UNCHANGED <<THREAD_BATCH_SIZE, produced, queue, closed, final, batch,
                 total_threads, ops>>
  /\ UNCHANGED store_vars

\* cypher_writer.rs:24-30   Some(thread) = rx.recv().await; push; count; test
RecvSome ==
  /\ wpc = "recv"
  /\ queue # <<>>
  /\ queue' = Tail(queue)
  /\ batch' = Append(batch, Head(queue))
  /\ total_threads' = total_threads + 1
  /\ wpc' = IF BatchFull(batch') THEN "op1" ELSE "recv"
  /\ final' = FALSE
  /\ UNCHANGED <<THREAD_BATCH_SIZE, produced, closed, rx_open, ops, result>>
  /\ UNCHANGED store_vars

\* Mutation: an empty queue ends the loop whether or not it is closed.
RecvNone_OnEmpty ==
  /\ wpc = "recv"
  /\ queue = <<>>
  /\ IF BatchNonEmpty(batch)
       THEN /\ wpc' = "op1"
            /\ final' = TRUE
            /\ UNCHANGED <<result, rx_open>>
       ELSE /\ wpc' = "done"
            /\ result' = "ok"
            /\ rx_open' = FALSE
            /\ UNCHANGED final
  /\ UNCHANGED <<THREAD_BATCH_SIZE, produced, queue, closed, batch,
                 total_threads, ops>>
  /\ UNCHANGED store_vars

\* cypher_writer.rs:24, 36-45   recv() yields None: closed and drained
RecvNone ==
  /\ wpc = "recv"
  /\ queue = <<>>
  /\ closed
  /\ IF BatchNonEmpty(batch)
       THEN /\ wpc' = "op1"
            /\ final' = TRUE
            /\ UNCHANGED <<result, rx_open>>
       ELSE /\ wpc' = "done"
            /\ result' = "ok"
            /\ rx_open' = FALSE
            /\ UNCHANGED final
  /\ UNCHANGED <<THREAD_BATCH_SIZE, produced, queue, closed, batch,
                 total_threads, ops>>
  /\ UNCHANGED store_vars

\* cypher_writer.rs:50-56   graph.run(participant_query).await succeeds
Op1Ok ==
  /\ wpc = "op1"
  /\ ops' = Append(ops, OpRecord(1, participant_to_params(batch), TRUE, <<>>))
  /\ wpc' = "op2"
  /\ UNCHANGED <<THREAD_BATCH_SIZE, produced, queue, closed, rx_open, final,
                 batch, total_threads, result>>
  /\ participant_nodes' =
       run_participant_query(participant_nodes,
                             participant_to_params(batch))
  /\ UNCHANGED message_nodes

\* Mutation: the error of operation 1 is ignored and operation 2 still runs.
Op1Fail_Ignored ==
  /\ wpc = "op1"
  /\ ops' = Append(ops, OpRecord(1, participant_to_params(batch), FALSE, <<>>))
  /\ wpc' = "op2"
  /\ UNCHANGED <<THREAD_BATCH_SIZE, produced, queue, closed, rx_open, final,
                 batch, total_threads, result>>
  /\ UNCHANGED store_vars

\* cypher_writer.rs:56 with 30/39   graph.run(participant_query).await?
Op1Fail ==
  /\ wpc = "op1"
  /\ ops' = Append(ops, OpRecord(1, participant_to_params(batch), FALSE, <<>>))
  /\ wpc' = "failed"
  /\ result' = "err"
  /\ rx_open' = FALSE
  /\ UNCHANGED <<THREAD_BATCH_SIZE, produced, queue, closed, final, batch,
                 total_threads>>
  /\ UNCHANGED store_vars

\* Mutation: the batch is not cleared after a threshold flush.
Op2Ok_NoClear ==
  /\ wpc = "op2"
  /\ \E payload \in {message_to_params(batch)} :
       \E created \in {run_message_query(participant_nodes, payload)} :
         /\ ops' = Append(ops, OpRecord(2, payload, TRUE, created))
         /\ message_nodes' = message_nodes \o Concat(created)
  /\ UNCHANGED participant_nodes
  /\ IF final
       THEN /\ wpc' = "done"
            /\ result' = "ok"
            /\ rx_open' = FALSE
       ELSE /\ wpc' = "recv"
            /\ UNCHANGED <<result, rx_open>>
  /\ UNCHANGED <<THREAD_BATCH_SIZE, produced, queue, closed, final, batch,
                 total_threads>>

\* cypher_writer.rs:59-72, then 31-33 (batch.clear()) or 40-44 (Ok(()))
Op2Ok ==
  /\ wpc = "op2"
  /\ \E payload \in {message_to_params(batch)} :
       \E created \in {run_message_query(participant_nodes, payload)} :
         /\ ops' = Append(ops, OpRecord(2, payload, TRUE, created))
         /\ message_nodes' = message_nodes \o Concat(created)
  /\ UNCHANGED participant_nodes
  /\ IF final
       THEN /\ wpc' = "done"
            /\ result' = "ok"
            /\ rx_open' = FALSE
            /\ UNCHANGED batch
       ELSE /\ wpc' = "recv"
            /\ batch' = <<>>
            /\ UNCHANGED <<result, rx_open>>
  /\ UNCHANGED <<THREAD_BATCH_SIZE, produced, queue, closed, final,
                 total_threads>>

\* Mutation: the error of operation 2 is swallowed and the loop goes on.
Op2Fail_Swallowed ==
  /\ wpc = "op2"
  /\ ops' = Append(ops, OpRecord(2, message_to_params(batch), FALSE, <<>>))
  /\ IF final
       THEN /\ wpc' = "done"
            /\ result' = "ok"
            /\ rx_open' = FALSE
            /\ UNCHANGED batch
       ELSE /\ wpc' = "recv"
            /\ batch' = <<>>
            /\ UNCHANGED <<result, rx_open>>
  /\ UNCHANGED <<THREAD_BATCH_SIZE, produced, queue, closed, final,
                 total_threads>>
  /\ UNCHANGED store_vars

\* Mutation: the failing operation 2 has already written its nodes.
Op2Fail_PartialWrite ==
  /\ wpc = "op2"
  /\ ops' = Append(ops, OpRecord(2, message_to_params(batch), FALSE, <<>>))
  /\ message_nodes' =
       message_nodes \o Concat(run_message_query(participant_nodes,
                                                 message_to_params(batch)))
  /\ wpc' = "failed"
  /\ result' = "err"
  /\ rx_open' = FALSE
  /\ UNCHANGED <<THREAD_BATCH_SIZE, produced, queue, closed, final, batch,
                 total_threads, participant_nodes>>

\* cypher_writer.rs:70 with 30/39   graph.run(message_query).await?
Op2Fail ==
  /\ wpc = "op2"
  /\ ops' = Append(ops, OpRecord(2, message_to_params(batch), FALSE, <<>>))
  /\ wpc' = "failed"
  /\ result' = "err"
  /\ rx_open' = FALSE
  /\ UNCHANGED <<THREAD_BATCH_SIZE, produced, queue, closed, final, batch,
                 total_threads>>
  /\ UNCHANGED store_vars

\* ------------------------------------------------- pipeline: properties

Flushes(o) == SelectOps(o)
BatchesOf(rs) == [k \in 1..Len(rs) |-> rs[k].batch]
Occurrences(s, t) == Cardinality({j \in DOMAIN s : s[j] = t})
StreamLen == Len(produced)

\* C1: when the writer has returned Ok, every Thread the producer put on the
\* queue occurs exactly once in the batches of the participant operations
\* and exactly once in the batches of the message operations: none dropped,
\* none flushed twice.
C1_EveryThreadFlushedOnce ==
  (wpc = "done") =>
    /\ result = "ok" /\ closed /\ queue = <<>>
    /\ \A o \in {1, 2} :
         LET all == Concat(BatchesOf(Flushes(o))) IN
           /\ \A t \in Range(Ids(produced)) : Occurrences(all, t) = 1
           /\ Range(all) \subseteq Range(Ids(produced))
           /\ \A k \in DOMAIN ops : ops[k].ok

C1_Witness ==
  /\ wpc = "done" /\ StreamLen = MaxThreads /\ THREAD_BATCH_SIZE = 2
  /\ Len(Flushes(2)) = 3

\* C2: when the stream length M is a multiple of B (M = 0 included) and the
\* writer has returned Ok, exactly M/B flush cycles were issued, each of
\* exactly B threads and none of them the flush after the loop.
C2_MultipleOfBatchSize ==
  (wpc = "done" /\ StreamLen % THREAD_BATCH_SIZE = 0) =>
    \A o \in {1, 2} :
      LET f == Flushes(o) IN
        /\ Len(f) = StreamLen \div THREAD_BATCH_SIZE
        /\ \A k \in DOMAIN f :
             Len(f[k].batch) = THREAD_BATCH_SIZE /\ ~f[k].final

C2_Witness ==
  /\ wpc = "done" /\ THREAD_BATCH_SIZE = 2 /\ StreamLen = 4
  /\ Len(ops) = 4

\* C3: when M = q*B + r with 0 < r < B and the writer has returned Ok, there
\* were q flushes of exactly B threads, the k-th issued when exactly k*B
\* threads had been received, then one last flush of exactly r threads
\* issued after the loop, with the stream closed and drained.
C3_RemainderFlush ==
  LET q == StreamLen \div THREAD_BATCH_SIZE
      r == StreamLen % THREAD_BATCH_SIZE
  IN (wpc = "done" /\ r > 0) =>
       \A o \in {1, 2} :
         LET f == Flushes(o) IN
           /\ Len(f) = q + 1
           /\ \A k \in 1..q :
                /\ Len(f[k].batch) = THREAD_BATCH_SIZE
                /\ ~f[k].final
                /\ f[k].seen = k * THREAD_BATCH_SIZE
           /\ Len(f[q + 1].batch) = r
           /\ f[q + 1].final
           /\ f[q + 1].drained
           /\ f[q + 1].seen = StreamLen

C3_Witness ==
  /\ wpc = "done" /\ THREAD_BATCH_SIZE = 2 /\ StreamLen = 5
  /\ Len(ops) = 6 /\ ops[6].final

PayloadsOf(rs) == [k \in 1..Len(rs) |-> rs[k].payload]

\* C4: at every point of a run the batches handed to the store so far, in
\* flush order and each in its internal order, concatenate to a prefix of
\* the sequence of Threads the producer put on the queue; and so do the
\* parameter lists the store received: the participant records (message
\* records) sent so far are those of the produced Threads, in production
\* order.
C4_FlushedInProductionOrder ==
  /\ \A o \in {1, 2} :
       IsPrefix(Concat(BatchesOf(Flushes(o))), Ids(produced))
  /\ IsPrefix(Concat(PayloadsOf(Flushes(1))),
              Concat([k \in 1..Len(produced) |->
                        [j \in 1..Len(produced[k].participants) |->
                           participant_map(produced[k].participants[j])]]))
  /\ IsPrefix(Concat(PayloadsOf(Flushes(2))),
              Concat([k \in 1..Len(produced) |->
                        [j \in 1..Len(produced[k].messages) |->
                           message_map(produced[k].messages[j])]]))

C4_Witness ==
  /\ THREAD_BATCH_SIZE = 2 /\ Len(Flushes(2)) >= 2
  /\ Concat(BatchesOf(Flushes(2))) = <<1, 2, 3, 4>>
  /\ produced[1].participants # produced[2].participants
  /\ produced[3].messages # produced[4].messages

\* C5: in the log of store operations every operation 2 directly follows a
\* successful operation 1 of the same batch, and an operation 1 is followed
\* by nothing but the operation 2 of its own batch - never after a failure.
C5_ParticipantsBeforeMessages ==
  /\ \A i \in DOMAIN ops :
       /\ ops[i].op = 2 =>
            /\ i > 1
            /\ ops[i - 1].op = 1
            /\ ops[i - 1].ok
            /\ ops[i - 1].batch = ops[i].batch
            /\ ops[i - 1].seen = ops[i].seen
       /\ (ops[i].op = 1 /\ i < Len(ops)) =>
            /\ ops[i].ok
            /\ ops[i + 1].op = 2
  /\ (wpc = "op2") =>
       /\ ops # <<>>
       /\ ops[Len(ops)].op = 1
       /\ ops[Len(ops)].ok
       /\ ops[Len(ops)].batch = Ids(batch)

C5_Witness ==
  /\ Len(ops) = 5 /\ ops[5].op = 1 /\ ~ops[5].ok /\ ops[4].op = 2

\* C6: a failed store operation is the last one ever issued, the writer has
\* then returned the error, and from then on it receives nothing, issues
\* nothing and leaves the queue undrained.
C6_FailureStopsConsumption ==
  /\ [](\A i \in DOMAIN ops :
          ~ops[i].ok => (i = Len(ops) /\ wpc = "failed" /\ result = "err"))
  /\ [][(wpc = "failed") =>
          /\ wpc' = "failed" /\ result' = "err"
          /\ ops' = ops /\ batch' = batch
          /\ total_threads' = total_threads
          /\ Len(queue') >= Len(queue)]_vars

C6_Witness ==
  /\ wpc = "failed" /\ ops # <<>> /\ ~ops[Len(ops)].ok
  /\ ops[Len(ops)].op = 1 /\ ~ops[Len(ops)].final
  /\ queue # <<>> /\ result = "err"


\* ---------------------------------------------------- store: properties

OkOps(o) == SelectSeq(ops, LAMBDA r : r.op = o /\ r.ok)
CreatedBy(rs) == Concat([k \in 1..Len(rs) |-> Concat(rs[k].created)])

\* C13: every successful operation 2 created, for each message of its
\* parameter list, exactly one (:Message) node with that message's content
\* and timestamp, linked from the sender and to each of the recipients.
C13_OneNodePerMessage ==
  \A i \in DOMAIN ops :
    (ops[i].op = 2 /\ ops[i].ok) =>
      /\ Len(ops[i].created) = Len(ops[i].payload)
      /\ \A k \in DOMAIN ops[i].payload :
           LET msg == ops[i].payload[k]
               rows == ops[i].created[k]
           IN /\ Len(rows) = 1
              /\ \A j \in DOMAIN rows :
                   /\ rows[j].content = msg.content
                   /\ rows[j].timestamp = msg.timestamp
                   /\ rows[j].from = msg.from_phone
              /\ {rows[j].to : j \in DOMAIN rows} = Range(msg.to_phones)

\* The name the store should hold for a phone: that of the last row with
\* the phone in the participant lists upserted so far.
LastUpserted(phone) ==
  LET rows == Concat(PayloadsOf(OkOps(1)))
      hits == {k \in DOMAIN rows : rows[k].phone = phone}
  IN rows[CHOOSE k \in hits : \A j \in hits : j <= k].name

\* C14 (participants): no two (:Participant) nodes share a phone, there is a
\* node for exactly the phones upserted so far, and each node carries the
\* name of the last record upserted with its phone.
ParticipantsUpserted ==
  /\ \A a, b \in DOMAIN participant_nodes :
       participant_nodes[a].phone = participant_nodes[b].phone => a = b
  /\ {participant_nodes[k].phone : k \in DOMAIN participant_nodes}
       = {r.phone : r \in Range(Concat(PayloadsOf(OkOps(1))))}
  /\ \A k \in DOMAIN participant_nodes :
       participant_nodes[k].name = LastUpserted(participant_nodes[k].phone)

\* C14 (messages): the (:Message) nodes in the store are all the nodes the
\* successful operations 2 created, none merged, and every flushed message
\* created at least one.
MessagesFresh ==
  /\ message_nodes = CreatedBy(OkOps(2))
  /\ \A i \in DOMAIN ops :
       (ops[i].op = 2 /\ ops[i].ok) =>
         \A k \in DOMAIN ops[i].payload : Len(ops[i].created[k]) >= 1

\* C14: after any sequence of flushes the store has at most one participant
\* node per identifier, named as the last record upserted with it, and every
\* flushed message has created fresh message nodes.
C14_UpsertIdempotentMessagesFresh ==
  ParticipantsUpserted /\ MessagesFresh

\* C15: when the writer has failed in a store operation, the store holds
\* exactly the message nodes the earlier, completed flushes created and a
\* participant node for every identifier they upserted; those flushes
\* contain no Thread of the in-flight batch and none not yet received; and
\* the failing step itself writes no message node.
C15_FailureKeepsEarlierLosesRest ==
  /\ []((wpc = "failed" /\ ops # <<>>) =>
          /\ message_nodes = CreatedBy(OkOps(2))
          /\ \A i \in DOMAIN ops :
               (ops[i].op = 2 /\ ops[i].ok) =>
                 /\ Range(ops[i].batch) \cap Range(Ids(batch)) = {}
                 /\ \A t \in Range(ops[i].batch) : t <= total_threads
                 /\ \A r \in Range(ops[i - 1].payload) :
                      HasPhone(participant_nodes, r.phone)
          /\ Len(OkOps(2)) * THREAD_BATCH_SIZE + Len(batch) = total_threads)
  /\ [][(wpc # "failed" /\ wpc' = "failed") =>
          message_nodes' = message_nodes]_vars

C15_Witness ==
  /\ wpc = "failed" /\ Len(ops) = 4
  /\ ops[4].op = 2 /\ ~ops[4].ok /\ ~ops[4].final
  /\ Len(message_nodes) >= 2
  /\ THREAD_BATCH_SIZE = 2 /\ queue # <<>>
  /\ batch[1].messages # <<>>


\* C18: the writer returns Ok only with the queue closed and drained and
\* returns Err only after a failed connection or store operation; while the
\* queue is open and empty it stays at recv() and issues nothing; and once
\* the producer has closed the queue the writer eventually returns.
C18_ConsumerTermination ==
  /\ [](wpc = "done" => (closed /\ queue = <<>> /\ result = "ok"))
  /\ [](wpc = "failed" => (ops = <<>> \/ ~ops[Len(ops)].ok))
  /\ [][(wpc = "recv" /\ queue = <<>> /\ ~closed) =>
          (wpc' = "recv" /\ ops' = ops /\ batch' = batch
             /\ UNCHANGED store_vars)]_vars
  /\ (closed ~> (wpc \in {"done", "failed"}))

C18_Witness ==
  /\ wpc = "done" /\ result = "ok" /\ closed /\ queue = <<>>
  /\ StreamLen = 3 /\ THREAD_BATCH_SIZE = 3 /\ Len(ops) = 2

\* C19: the batch never holds more than THREAD_BATCH_SIZE threads and holds
\* fewer whenever the writer is at recv(); no operation was issued for a
\* larger batch; two flushes share no thread; and the step that completes a
\* threshold flush leaves the batch empty.
C19_BatchBound ==
  /\ [](/\ Len(batch) <= THREAD_BATCH_SIZE
        /\ (wpc = "recv" => Len(batch) < THREAD_BATCH_SIZE)
        /\ \A i \in DOMAIN ops :
             /\ Len(ops[i].batch) <= THREAD_BATCH_SIZE
             /\ \A j \in DOMAIN ops :
                  (i < j /\ ops[i].op = ops[j].op) =>
                    Range(ops[i].batch) \cap Range(ops[j].batch) = {})
  /\ [][(wpc = "op2" /\ ~final /\ wpc' = "recv") => batch' = <<>>]_vars

C19_Witness ==
  /\ wpc = "recv" /\ batch = <<>> /\ THREAD_BATCH_SIZE = 3
  /\ Len(ops) = 2 /\ ops[2].op = 2 /\ ops[2].ok /\ ~ops[2].final
  /\ Len(ops[2].batch) = 3 /\ total_threads = 3


ParseIdle ==
  /\ document = <<>>
  /\ ppc = "done"
  /\ idx = 1
  /\ participants_set = {}
  /\ me_participant = {}
  /\ participants = <<>>
  /\ messages = <<>>
  /\ thread = {}

LineIdle ==
  /\ lines = <<>>
  /\ lpc = "done"
  /\ lidx = 1
  /\ current = {}
  /\ out = <<>>
  /\ labels = {}

Init == PipeInit /\ ParseIdle /\ LineIdle

Next ==
  \/ (ProducerSend /\ UNCHANGED <<parse_vars, line_vars>>)
  \/ (ProducerClose /\ UNCHANGED <<parse_vars, line_vars>>)
  \/ (Connect /\ UNCHANGED <<parse_vars, line_vars>>)
  \/ (ConnectFail /\ UNCHANGED <<parse_vars, line_vars>>)
  \/ (RecvSome /\ UNCHANGED <<parse_vars, line_vars>>)
  \/ (RecvNone /\ UNCHANGED <<parse_vars, line_vars>>)
  \/ (Op1Ok /\ UNCHANGED <<parse_vars, line_vars>>)
  \/ (Op1Fail /\ UNCHANGED <<parse_vars, line_vars>>)
  \/ (Op2Ok /\ UNCHANGED <<parse_vars, line_vars>>)
  \/ (Op2Fail /\ UNCHANGED <<parse_vars, line_vars>>)

Spec == Init /\ [][Next]_vars

\* cypher_writer.rs:15-45   the writer is one task: whenever it can take a
\* step (it is not waiting on an open, empty queue) it eventually does, and
\* the store answers every operation.
WriterStep ==
  \/ Connect \/ ConnectFail \/ RecvSome \/ RecvNone
  \/ Op1Ok \/ Op1Fail \/ Op2Ok \/ Op2Fail

FairSpec ==
  Init /\ [][Next]_vars
       /\ WF_vars(WriterStep /\ UNCHANGED <<parse_vars, line_vars>>)

\* ============================================================== parse_file

\* What a message block can carry.  "none" stands for a missing element or
\* attribute; a dt of "bad" is a title that DATETIME_FORMAT does not parse.
Hrefs == {"none", "tel:+1", "tel:+2"}
Fns == {"none", "Me", "Bob"}
Dts == {"none", "2021-01-01T13:00:00.000+00:00"}
Qs == {"hi"}

SenderBlocks == [sender : {TRUE}, href : Hrefs, fn : Fns, dt : Dts, q : Qs]
NoSenderBlock == [sender |-> FALSE, href |-> "none", fn |-> "none",
                  dt |-> "none", q |-> "hi"]
\* Two more blocks: one with nothing but the sender element and a title
\* that DATETIME_FORMAT does not parse, and one that only lacks its <q>.
BareBlock == [sender |-> TRUE, href |-> "none", fn |-> "none",
              dt |-> "bad", q |-> "none"]
ContentlessBlock == [sender |-> TRUE, href |-> "tel:+1", fn |-> "Bob",
                     dt |-> "2021-01-01T13:00:00.000+00:00", q |-> "none"]
DegradedBlocks == {BareBlock, ContentlessBlock}
Blocks == SenderBlocks \cup {NoSenderBlock} \cup DegradedBlocks
Documents == UNION {[1..n -> Blocks] : n \in 0..MaxBlocks}

\* main.rs:26-30   struct Participant { name, phone }, compared field by
\* field (derive PartialEq, Eq, Hash)
Participant(name, phone) == [name |-> name, phone |-> phone]

\* main.rs:209-214 / 255-260   a.tel href, strip_prefix("tel:"), or "Unknown"
phone_number(block) ==
  CASE block.href = "tel:+1" -> "+1"
    [] block.href = "tel:+2" -> "+2"
    [] OTHER -> "Unknown"

\* main.rs:216-220   first text of span.fn / abbr.fn, or ""
name_of(block) == IF block.fn = "none" THEN "" ELSE block.fn

\* main.rs:246-252   parsed title in UTC seconds, or the epoch
timestamp_of(block) ==
  IF block.dt = "2021-01-01T13:00:00.000+00:00" THEN 1609506000 ELSE 0

\* main.rs:278-282   text of <q>, or the empty string
content_of(block) == IF block.q = "none" THEN "" ELSE block.q

\* main.rs:235-240   me_participant.unwrap_or_else(|| Me / Unknown)
resolve_me(opt) ==
  IF opt = {} THEN Participant("Me", "Unknown") ELSE CHOOSE p \in opt : TRUE

\* main.rs:262-266   participants.iter().find(phone).unwrap_or(&me)
find_from(parts, phone, me) ==
  IF \E k \in DOMAIN parts : parts[k].phone = phone
    THEN parts[CHOOSE k \in DOMAIN parts :
                 /\ parts[k].phone = phone
                 /\ \A j \in 1..(k - 1) : parts[j].phone # phone]
    ELSE me

\* Mutation: self is not filtered out of its own recipients.
direction_KeepsSelf(from, me, parts) ==
  IF from = me THEN parts ELSE <<me>>

\* main.rs:268-276   recipients from the sender and the self participant
direction(from, me, parts) ==
  IF from = me THEN SelectSeq(parts, LAMBDA p : p # me) ELSE <<me>>

\* main.rs:234   HashSet::into_iter().collect(): some order of the set
Orders(S) ==
  {f \in [1..Cardinality(S) -> S] : \A a, b \in DOMAIN f : f[a] = f[b] => a = b}

ParseInit ==
  /\ document \in Documents
  /\ ppc = "pass1"
  /\ idx = 1
  /\ participants_set = {}
  /\ me_participant = {}
  /\ participants = <<>>
  /\ messages = <<>>
  /\ thread = {}

\* main.rs:207-232   one iteration of the first pass
Pass1Step ==
  /\ ppc = "pass1"
  /\ idx <= Len(document)
  /\ document[idx].sender
  /\ LET block == document[idx]
         participant == Participant(name_of(block), phone_number(block))
     IN /\ me_participant' = IF name_of(block) = "Me" THEN {participant}
                                                       ELSE me_participant
        /\ participants_set' = participants_set \cup {participant}
  /\ idx' = idx + 1
  /\ UNCHANGED <<document, ppc, participants, messages, thread>>

\* main.rs:208   select(&sender_selector).next().unwrap() on a block with no
\* sender element: the thread panics, parse_file returns nothing
Pass1Panic ==
  /\ ppc = "pass1"
  /\ idx <= Len(document)
  /\ ~document[idx].sender
  /\ ppc' = "panic"
  /\ UNCHANGED <<document, idx, participants_set, me_participant,
                 participants, messages, thread>>

\* main.rs:234-240   collect the set into a Vec, resolve the self participant
Collect ==
  /\ ppc = "pass1"
  /\ idx > Len(document)
  /\ participants' \in Orders(participants_set)
  /\ me_participant' = {resolve_me(me_participant)}
  /\ ppc' = "pass2"
  /\ idx' = 1
  /\ UNCHANGED <<document, participants_set, messages, thread>>

\* Mutation: a block whose timestamp does not parse is skipped.
Pass2Step_SkipsUndated ==
  /\ ppc = "pass2"
  /\ idx <= Len(document)
  /\ LET block == document[idx]
         me == resolve_me(me_participant)
         from == find_from(participants, phone_number(block), me)
     IN IF ~block.sender
          THEN /\ ppc' = "panic"
               /\ UNCHANGED <<idx, messages>>
          ELSE /\ messages' =
                    IF timestamp_of(block) = 0 THEN messages
                    ELSE Append(messages,
                           [from |-> from,
                            to |-> direction(from, me, participants),
                            timestamp |-> timestamp_of(block),
                            content |-> content_of(block)])
               /\ idx' = idx + 1
               /\ UNCHANGED ppc
  /\ UNCHANGED <<document, participants_set, me_participant, participants,
                 thread>>

\* main.rs:245-290   the closure of the second pass on one block
Pass2Step ==
  /\ ppc = "pass2"
  /\ idx <= Len(document)
  /\ LET block == document[idx]
         me == resolve_me(me_participant)
         from == find_from(participants, phone_number(block), me)
     IN IF ~block.sender
          THEN /\ ppc' = "panic"
               /\ UNCHANGED <<idx, messages>>
          ELSE /\ messages' = Append(messages,
                    [from |-> from,
                     to |-> direction(from, me, participants),
                     timestamp |-> timestamp_of(block),
                     content |-> content_of(block)])
               /\ idx' = idx + 1
               /\ UNCHANGED ppc
  /\ UNCHANGED <<document, participants_set, me_participant, participants,
                 thread>>

\* main.rs:291-300   Ok(Thread { messages, participants, message_count })
Return ==
  /\ ppc = "pass2"
  /\ idx > Len(document)
  /\ thread' = {[messages |-> messages, participants |-> participants,
                 message_count |-> Len(messages)]}
  /\ ppc' = "done"
  /\ UNCHANGED <<document, idx, participants_set, me_participant,
                 participants, messages>>

\* ------------------------------------------------ parse_file: properties

Identifiers(doc) == {phone_number(doc[k]) : k \in DOMAIN doc}

\* The self participant of a document: the last block named "Me", or the
\* synthesized Me / Unknown.
SelfOf(doc) ==
  LET mes == {k \in DOMAIN doc : name_of(doc[k]) = "Me"} IN
    IF mes = {} THEN Participant("Me", "Unknown")
    ELSE Participant("Me",
           phone_number(doc[CHOOSE k \in mes : \A j \in mes : j <= k]))

\* C7: the participant set of the returned Thread has exactly as many
\* entries as the document's blocks have distinct identifiers (a missing
\* identifier counting as "Unknown"), whatever the names.
C7_OneEntryPerIdentifier ==
  (ppc = "done") =>
    \A t \in thread :
      Len(t.participants) = Cardinality(Identifiers(document))

\* C8: in the returned Thread the k-th message has the identifier of the
\* k-th block; if its sender is the self participant its recipients are
\* exactly the participants other than self, each once, and otherwise
\* exactly <<self>> - wherever in the document the block naming self is.
C8_SelfDirectionSymmetry ==
  (ppc = "done") =>
    \A t \in thread :
      LET self == SelfOf(document) IN
        /\ Len(t.messages) = Len(document)
        /\ \A k \in DOMAIN t.messages :
             LET m == t.messages[k] IN
               /\ m.from.phone = phone_number(document[k])
               /\ IF m.from = self
                    THEN /\ Range(m.to) = Range(t.participants) \ {self}
                         /\ Len(m.to) = Cardinality(Range(m.to))
                    ELSE m.to = <<self>>

C8_Witness ==
  /\ ppc = "done" /\ Len(document) = 3
  /\ document[1].fn = "Bob" /\ document[2].fn = "Me"
  /\ document[3].fn = "none"
  /\ Cardinality(Identifiers(document)) = 3
  /\ \E t \in thread :
       /\ t.messages[1].to = <<Participant("Me", phone_number(document[2]))>>
       /\ t.messages[2].from = SelfOf(document)
       /\ Len(t.messages[2].to) = 2

\* C9: every participant a message of the returned Thread refers to, as its
\* sender or as a recipient, is an entry of the Thread's participant set.
C9_ReferencedParticipantsPresent ==
  (ppc = "done") =>
    \A t \in thread :
      \A k \in DOMAIN t.messages :
        /\ t.messages[k].from \in Range(t.participants)
        /\ Range(t.messages[k].to) \subseteq Range(t.participants)

\* C10: no recipient of a message of the returned Thread has the sender's
\* identifier.
C10_SenderNotAmongRecipients ==
  (ppc = "done") =>
    \A t \in thread :
      \A k \in DOMAIN t.messages :
        \A r \in Range(t.messages[k].to) :
          r.phone # t.messages[k].from.phone


\* C11: in every message of the returned Thread the recipient list is not
\* empty and holds no participant twice.
C11_RecipientsNonEmptyNoDuplicates ==
  (ppc = "done") =>
    \A t \in thread :
      \A k \in DOMAIN t.messages :
        LET to == t.messages[k].to IN
          /\ to # <<>>
          /\ \A a, b \in DOMAIN to : to[a] = to[b] => a = b

HasSenderEverywhere(doc) == \A k \in DOMAIN doc : doc[k].sender

\* C12: parse_file panics only on a document with a block that has no
\* sender element; otherwise the returned Thread has one message per block,
\* in document order - the k-th message has the k-th block's identifier
\* ("Unknown" if missing), its content (empty if missing) and its timestamp
\* (the epoch if missing or unparseable) - and message_count is the number
\* of blocks.
C12_GracefulDegradation ==
  /\ (ppc = "panic") => ~HasSenderEverywhere(document)
  /\ (ppc = "done") =>
       \A t \in thread :
         /\ Len(t.messages) = Len(document)
         /\ t.message_count = Len(document)
         /\ \A k \in DOMAIN t.messages :
              LET m == t.messages[k]
                  block == document[k]
              IN /\ m.from.phone =
                      (IF block.href \in {"tel:+1", "tel:+2"}
                         THEN phone_number(block) ELSE "Unknown")
                 /\ m.content = (IF block.q = "none" THEN "" ELSE block.q)
                 /\ m.timestamp =
                      (IF block.dt \in {"none", "bad"} THEN 0
                                                      ELSE 1609506000)

C12_Witness ==
  /\ ppc = "done" /\ Len(document) = 3
  /\ document[1].dt = "none" /\ document[1].fn = "Me"
  /\ document[2] = BareBlock
  /\ document[3] = ContentlessBlock
  /\ \E t \in thread :
       /\ t.message_count = 3
       /\ t.messages[1].timestamp = 0
       /\ t.messages[2].timestamp = 0 /\ t.messages[2].content = ""
       /\ t.messages[2].from.phone = "Unknown"
       /\ t.messages[3].timestamp = 1609506000

\* C16: on a document with a block that has no sender element parse_file
\* ends by returning an error to its caller, and returns no Thread; on any
\* other document it returns a Thread.
C16_MissingSenderIsParseFailure ==
  (ppc \notin {"pass1", "pass2"}) =>
    IF HasSenderEverywhere(document)
      THEN ppc = "done" /\ thread # {}
      ELSE ppc = "error" /\ thread = {}

\* C20: whichever order the participant set is iterated in, every message
\* of the returned Thread has the sender and the set of recipients that
\* order gives.
C20_IterationOrderIrrelevant ==
  (ppc = "done") =>
    \A t \in thread :
      \A o \in Orders(participants_set) :
        \A k \in DOMAIN t.messages :
          LET me == resolve_me(me_participant)
              from == find_from(o, phone_number(document[k]), me)
          IN /\ t.messages[k].from = from
             /\ Range(t.messages[k].to) = Range(direction(from, me, o))


PipeIdle ==
  /\ THREAD_BATCH_SIZE = 1
  /\ produced = <<>>
  /\ queue = <<>>
  /\ closed = TRUE
  /\ rx_open = FALSE
  /\ wpc = "done"
  /\ final = FALSE
  /\ batch = <<>>
  /\ total_threads = 0
  /\ ops = <<>>
  /\ result = "ok"
  /\ participant_nodes = <<>>
  /\ message_nodes = <<>>

ParseNext ==
  \/ (Pass1Step /\ UNCHANGED <<pipe_vars, line_vars>>)
  \/ (Pass1Panic /\ UNCHANGED <<pipe_vars, line_vars>>)
  \/ (Collect /\ UNCHANGED <<pipe_vars, line_vars>>)
  \/ (Pass2Step /\ UNCHANGED <<pipe_vars, line_vars>>)
  \/ (Return /\ UNCHANGED <<pipe_vars, line_vars>>)

ParseStart == ParseInit /\ PipeIdle /\ LineIdle

ParseSpec == ParseStart /\ [][ParseNext]_vars

\* ==================================================== line-oriented parser

\* A line is the sequence of its fields, the pieces between occurrences of
\* the delimiter ": "; its text is the fields joined by the delimiter.
Delim == ": "
HelloLine == <<"Jan 1, 2021, 1:00:00 PM", "Alice", "Hello">>
ZonedLine == <<"Jan 2, 2021, 2:00:00 PM EST", "Bob", "Re", "ok">>
ShortLine == <<"Jan 1, 2021, 1:00:00 PM", "Alice">>
WorldLine == <<"world">>
NoteLine == <<"PS", "bye">>
LabelLine == <<"Labels", "Inbox">>
DeletedLine == <<"Deleted", "gone">>
LineKinds ==
  {HelloLine, ZonedLine, ShortLine, WorldLine, NoteLine, LabelLine,
   DeletedLine}
Transcripts == UNION {[1..n -> LineKinds] : n \in 0..MaxLines}

\* The fields of a line from the k-th on, joined by the delimiter, as the
\* pieces of the text.
RECURSIVE Joined(_, _)
Joined(line, k) ==
  IF k > Len(line) THEN <<>>
  ELSE IF k = Len(line) THEN <<line[k]>>
  ELSE <<line[k], Delim>> \o Joined(line, k + 1)

is_label(line) == line[1] = "Labels"
is_deleted(line) == line[1] = "Deleted"

\* The known timestamp patterns, zone-qualified first: the instant a prefix
\* parses to, or nothing.
parse_timestamp(prefix) ==
  CASE prefix = "Jan 2, 2021, 2:00:00 PM EST" -> {1609614000}
    [] prefix = "Jan 1, 2021, 1:00:00 PM" -> {1609506000}
    [] OTHER -> {}

is_timestamp_line(line) ==
  ~is_label(line) /\ ~is_deleted(line) /\ parse_timestamp(line[1]) # {}

is_continuation(line) ==
  ~is_label(line) /\ ~is_deleted(line) /\ parse_timestamp(line[1]) = {}

\* Split on the first two delimiters: three parts, or fewer.
splitn3(line) ==
  IF Len(line) >= 3 THEN <<<<line[1]>>, <<line[2]>>, Joined(line, 3)>>
  ELSE [k \in 1..Len(line) |-> <<line[k]>>]

\* The accumulator flushed to the output.
flush(acc, msgs) == IF acc = {} THEN msgs ELSE Append(msgs, CHOOSE m \in acc : TRUE)

LineInit ==
  /\ lines \in Transcripts
  /\ lpc = "scan"
  /\ lidx = 1
  /\ current = {}
  /\ out = <<>>
  /\ labels = {}

\* A line beginning with the label marker replaces the label set.
OnLabelLine ==
  /\ lpc = "scan" /\ lidx <= Len(lines)
  /\ is_label(lines[lidx])
  /\ labels' = {lines[lidx][k] : k \in 2..Len(lines[lidx])}
  /\ lidx' = lidx + 1
  /\ UNCHANGED <<lines, lpc, current, out>>

\* A line beginning with the deleted marker is discarded.
OnDeletedLine ==
  /\ lpc = "scan" /\ lidx <= Len(lines)
  /\ is_deleted(lines[lidx])
  /\ lidx' = lidx + 1
  /\ UNCHANGED <<lines, lpc, current, out, labels>>

\* The prefix parses as a timestamp: flush the message in progress, then
\* start a message if the line splits into exactly three parts.
OnTimestampLine ==
  /\ lpc = "scan" /\ lidx <= Len(lines)
  /\ is_timestamp_line(lines[lidx])
  /\ out' = flush(current, out)
  /\ LET parts == splitn3(lines[lidx]) IN
       current' = IF Len(parts) = 3
                    THEN {[timestamp |-> CHOOSE t \in
                                           parse_timestamp(lines[lidx][1]) :
                                           TRUE,
                           sender |-> parts[2],
                           content |-> parts[3]]}
                    ELSE {}
  /\ lidx' = lidx + 1
  /\ UNCHANGED <<lines, lpc, labels>>

\* The prefix does not parse: a newline and the line's full text go onto
\* the message in progress, if there is one.
OnContinuationLine ==
  /\ lpc = "scan" /\ lidx <= Len(lines)
  /\ is_continuation(lines[lidx])
  /\ current' = {[m EXCEPT !.content = @ \o <<"\n">> \o Joined(lines[lidx], 1)]
                   : m \in current}
  /\ lidx' = lidx + 1
  /\ UNCHANGED <<lines, lpc, out, labels>>

\* Mutation: the message in progress at end of input is not flushed.
EndOfInput_NoFlush ==
  /\ lpc = "scan" /\ lidx > Len(lines)
  /\ current' = {}
  /\ lpc' = "done"
  /\ UNCHANGED <<lines, lidx, out, labels>>

\* End of input: flush the message in progress.
EndOfInput ==
  /\ lpc = "scan" /\ lidx > Len(lines)
  /\ out' = flush(current, out)
  /\ current' = {}
  /\ lpc' = "done"
  /\ UNCHANGED <<lines, lidx, labels>>

\* ------------------------------------------ line-oriented parser: properties

\* The indices of a set, in increasing order.
RECURSIVE Sorted(_)
Sorted(S) ==
  IF S = {} THEN <<>>
  ELSE LET lo == CHOOSE a \in S : \A b \in S : a <= b
       IN <<lo>> \o Sorted(S \ {lo})

StartsMessage(line) == is_timestamp_line(line) /\ Len(line) >= 3

\* The first timestamp line after line i, or the end of the input.
NextTimestamp(i) ==
  LET later == {j \in (i + 1)..Len(lines) : is_timestamp_line(lines[j])}
  IN IF later = {} THEN Len(lines) + 1
     ELSE CHOOSE j \in later : \A k \in later : j <= k

\* The content expected of the message started by line i.
ExpectedContent(i) ==
  LET conts == Sorted({j \in (i + 1)..(NextTimestamp(i) - 1) :
                         is_continuation(lines[j])})
  IN Joined(lines[i], 3)
       \o Concat([k \in 1..Len(conts) |->
                    <<"\n">> \o Joined(lines[conts[k]], 1)])

\* C17: at end of input the output holds exactly one message per line that
\* parses as a timestamp and splits into three parts, in order, each with
\* its own content followed by a newline and the full text of every
\* continuation line up to the next timestamp line; continuation lines
\* with no message in progress leave no trace.  In particular the Hello
\* line followed by "world" gives one message with content "Hello\nworld".
C17_ContinuationAccumulation ==
  (lpc = "done") =>
    LET starts == Sorted({i \in DOMAIN lines : StartsMessage(lines[i])}) IN
      /\ current = {}
      /\ Len(out) = Len(starts)
      /\ \A k \in DOMAIN out :
           /\ out[k].content = ExpectedContent(starts[k])
           /\ out[k].sender = <<lines[starts[k]][2]>>
           /\ {out[k].timestamp} = parse_timestamp(lines[starts[k]][1])
      /\ (lines = <<HelloLine, WorldLine>>) =>
           (Len(out) = 1 /\ out[1].content = <<"Hello", "\n", "world">>)

C17_Witness ==
  /\ lpc = "done" /\ lines = <<HelloLine, WorldLine>>
  /\ Len(out) = 1 /\ out[1].content = <<"Hello", "\n", "world">>

LineNext ==
  \/ (OnLabelLine /\ UNCHANGED <<pipe_vars, parse_vars>>)
  \/ (OnDeletedLine /\ UNCHANGED <<pipe_vars, parse_vars>>)
  \/ (OnTimestampLine /\ UNCHANGED <<pipe_vars, parse_vars>>)
  \/ (OnContinuationLine /\ UNCHANGED <<pipe_vars, parse_vars>>)
  \/ (EndOfInput /\ UNCHANGED <<pipe_vars, parse_vars>>)

LineStart == LineInit /\ PipeIdle /\ ParseIdle

LineSpec == LineStart /\ [][LineNext]_vars

====
